---------------------------- MODULE Spec2Model ----------------------------
(***************************************************************************)
(* A model of populate_rockprops_SMR_loader.py: the transfer of processed  *)
(* SMR water-content results into the four sheets of the ROCKPROPS Excel   *)
(* loading template.                                                       *)
(*                                                                         *)
(* Numbers.  A Python float is modelled exactly, in fixed point: the       *)
(* integer v stands for the real v / Unit.  Not-a-number is a separate     *)
(* value (NaN).  Strings are strings: identifiers are built with \o and    *)
(* ToString exactly as the f-strings of the source build them.             *)
(*                                                                         *)
(* Sheets.  A sheet is the sequence of rows below the template's header    *)
(* (main() strips every row after the header before the run), a row is     *)
(* the tuple of cell values that ws.append() receives.                     *)
(***************************************************************************)
EXTENDS Integers, Sequences, FiniteSets, TLC

VARIABLES
    smr_metadata,     \* main: the site metadata table read from config_file
    csv,              \* the file at smr_water_data_path, one record per line
    pc,               \* where main() is: main, collected, intervals, saved, aborted
    row_nr,           \* main: 0-based index of the metadata row being processed
    site_name,        \* main: the value add_section_interval_collection returned
    current_results,  \* add_section_intervals: the site's re-indexed subset
    idx,              \* add_section_intervals: 0-based index of the iterrows loop
    wb,               \* the workbook: sheet name -> rows appended so far
    saved,            \* the rows wb.save() wrote, <<>> while nothing is saved
    call              \* a call of round_up on its own: its arguments and its answer

vars == <<smr_metadata, csv, pc, row_nr, site_name, current_results, idx, wb, saved,
          call>>

---------------------------------------------------------------------------
(* Bounds of the model *)

MaxSites == 2         \* metadata rows in a run
MaxRows == 3          \* lines of the measurement file
MaxMantissa == 12     \* round_up on its own: values k * 10^e with |k| <= MaxMantissa,
MaxDecimals == 6      \*   decimals in 0..MaxDecimals
MaxDigits == 7        \*   and e + decimals <= MaxDigits

---------------------------------------------------------------------------
(* Config/SMR_config.py *)

NULL_VALUE == -99999
MAX_DEPTH == 100

lmh == << <<"p5", "BAYESIAN_LOW">>,
          <<"p50", "BAYESIAN_MEDIAN">>,
          <<"p95", "BAYESIAN_HIGH">> >>

COLLECTION_NAME_POSTFIX == " water content profile"
COLLECTION_TYPE == "hydrogeological"
ORIGINATOR_NUMBER == 484
PREFERRED_COLLECTION == "Y"
INTERVAL_UNIT_OF_MEASURE == "metre"
ANO == 228
ACCESS_CODE == "A"
QA_STATUS == "C"
ACTIVITY_CODE == "A"
SAMPLE_TYPE == "observation only"
SAMPLING_METHOD == "field mapping survey"
MATERIAL_CLASS == "groundwater"
PROJECT_NO == 576
ORIGNO == 484
SOURCE_TYPE == "GA NAS"
SOURCE == "\\\\prod.lan\\active\\proj\\futurex\\DCD\\Data\\Processed\\Geophysics\\SMR\\results"
LOAD_APPROVED == "Y"
PROCESS_TYPE == 17475995
PETROPHYSICAL_PROPERTY == "water content"
UOM == "volume fraction"
NUMERICAL_CONFIDENCE == "moderate confidence"
METADATA_QUALITY == "high quality"
SUMMARY_CONFIDENCE == "high confidence"

RemarkCredible == "Water content and uncertainty inferred from inverting SMR data using Bayesian probabilistic methods. The credible interval (u) is 90%, where u = high - low."
RemarkMedian == "Water content and uncertainty inferred from inverting SMR data using Bayesian probabilistic methods."

BayesianEntry(qualifier, value, remarks) ==
    ("RESULT QUALIFIER" :> qualifier) @@
    ("UNCERTAINTY TYPE" :> "Bayesian posterior inferred percentile point") @@
    ("UNCERTAINTY VALUE" :> value) @@
    ("UNCERTAINTY UOM" :> "percent") @@
    ("SP_REMARKS" :> remarks)

BAYESIAN_CONSTANTS ==
    ("BAYESIAN_LOW" :> BayesianEntry("Bayesian low", 5, RemarkCredible)) @@
    ("BAYESIAN_MEDIAN" :> BayesianEntry("Bayesian median", 50, RemarkMedian)) @@
    ("BAYESIAN_HIGH" :> BayesianEntry("Bayesian high", 95, RemarkCredible))

---------------------------------------------------------------------------
(* Floats *)

Unit == 10^5                             \* the integer v stands for v / Unit
NaN == [isnan |-> TRUE, val |-> 0]
Num(v) == [isnan |-> FALSE, val |-> v]
PyInt(i) == [int |-> i]                  \* a Python int in a cell that may hold a float

\* math.ceil(a / b) for b > 0 (\div rounds towards minus infinity)
ceil(a, b) == -((-a) \div b)

\* int(x) of a float: truncation towards zero
int(x) == IF x.val >= 0 THEN x.val \div Unit ELSE -((-x.val) \div Unit)

\* np_round with the ceiling in place of the nearest multiple (a fault model
\* against which C11 is checked)
np_round_ceil(x, decimals) ==
    IF x.isnan THEN NaN
    ELSE LET step == Unit \div (10^decimals)
         IN  Num(ceil(x.val, step) * step)

\* numpy's around, as DataFrame.round applies it: to the nearest multiple of
\* 10^-decimals, a tie to the even one; not-a-number stays not-a-number
np_round(x, decimals) ==
    IF x.isnan THEN NaN
    ELSE LET step == Unit \div (10^decimals)
             q == x.val \div step
             r == x.val % step
             n == IF 2 * r < step THEN q
                  ELSE IF 2 * r > step THEN q + 1
                  ELSE IF q % 2 = 0 THEN q ELSE q + 1
         IN  Num(n * step)

\* round_up with math.floor in place of math.ceil (a fault model against
\* which C10 is checked)
round_up_floor(n, decimals) ==
    IF n.isnan
    THEN [exc |-> "ValueError", ret |-> NaN]
    ELSE LET multiplier == 10^decimals
         IN  [exc |-> "none",
              ret |-> Num((((n.val * multiplier) \div Unit) * Unit) \div multiplier)]

\* round_up answers with a return value or with the exception math.ceil
\* raises on not-a-number ("cannot convert float NaN to integer")
round_up(n, decimals) ==
    IF n.isnan
    THEN [exc |-> "ValueError", ret |-> NaN]
    ELSE LET multiplier == 10^decimals
         IN  [exc |-> "none",
              ret |-> Num((ceil(n.val * multiplier, Unit) * Unit) \div multiplier)]

---------------------------------------------------------------------------
(* Inputs *)

SeqsUpTo(S, n) == UNION {[1..k -> S] : k \in 0..n}

Sites == {"S1", "S2"}

Eno(s) == IF s = "S1" THEN 600001 ELSE 600002
DepRef(s) == IF s = "S1" THEN 7001 ELSE 7002
AcqDate(s) == IF s = "S1" THEN "2022-08-14" ELSE "2023-05-02"

\* one row of the metadata sheet
MetaRow(s) ==
    ("Measured section name" :> s) @@ ("ENO" :> Eno(s)) @@
    ("Dep ref point" :> DepRef(s)) @@ ("Acq_date" :> AcqDate(s))

MetaRows == {MetaRow(s) : s \in Sites}

\* depth bins of the measurement file, in metres * Unit: a bin within one
\* metre, a bin ending between 100 and 101 metres, a bin ending at 105
Bins == { <<20400, 71500>>,
          <<71500, 10050500>>,
          <<10050500, 10500000>> }

\* percentile triples p5, p50, p95 of a line
Percentiles == { <<Num(3141), Num(25000), Num(99999)>>,
                 <<Num(3141), NaN, Num(99999)>> }

CsvRows ==
    { [site_name |-> s, depth_from |-> Num(b[1]), depth_to |-> Num(b[2]),
       p5 |-> p[1], p50 |-> p[2], p95 |-> p[3]] :
      s \in Sites, b \in Bins, p \in Percentiles }

---------------------------------------------------------------------------
(* The sheets *)

COLLECTION == "SECTION INTERVAL COLLECTION"
INTERVALS == "SECTION INTERVALS"
SAMPLES == "SAMPLES"
SCALAR == "SCALAR PROPERTIES"

worksheets == {COLLECTION, INTERVALS, SAMPLES, SCALAR}

\* ws.append(new_row) on sheet ws of workbook
append(workbook, ws, new_row) ==
    [workbook EXCEPT ![ws] = Append(@, new_row)]


---------------------------------------------------------------------------
(* get_smr_df: read the file, rename the percentile columns by lmh and     *)
(* round the two depth columns to 2 decimals with DataFrame.round          *)

rename(line) ==
    [site_name |-> line.site_name,
     depth_from |-> line.depth_from,
     depth_to |-> line.depth_to] @@
    [c \in {lmh[k][2] : k \in 1..Len(lmh)} |->
        line[lmh[CHOOSE k \in 1..Len(lmh) : lmh[k][2] = c][1]]]

get_smr_df(smr_data_path) ==
    [i \in 1..Len(smr_data_path) |->
        LET smr_df == rename(smr_data_path[i])
        IN  [smr_df EXCEPT !.depth_from = np_round(@, 2),
                           !.depth_to = np_round(@, 2)]]

\* smr_data[smr_data["site_name"] == site_name] followed by reset_index: the
\* rows of the site in frame order, numbered again from 0 by their position
\* (idx of iterrows), the old label kept in the column "index"
site_subset(smr_data, site) ==
    SelectSeq([i \in 1..Len(smr_data) |-> smr_data[i] @@ ("index" :> i - 1)],
              LAMBDA row : row.site_name = site)

---------------------------------------------------------------------------
(* The emitters.  Each answers [workbook, exc (, ret)]: exc is "none" or   *)
(* the exception that left the function, workbook the sheets as they were  *)
(* when it returned or raised.                                             *)

\* add_section_interval_collection with the name and the postfix swapped (a
\* fault model against which C8 is checked)
add_section_interval_collection_swapped(inputs, workbook) ==
    LET name == inputs["Measured section name"]
        collection_name == COLLECTION_NAME_POSTFIX \o name
        new_row == << inputs["ENO"], inputs["Measured section name"],
                      inputs["Dep ref point"], "", collection_name,
                      COLLECTION_TYPE, ORIGINATOR_NUMBER, PREFERRED_COLLECTION,
                      "", "" >>
    IN  [workbook |-> append(workbook, COLLECTION, new_row), ret |-> name]

add_section_interval_collection(inputs, workbook) ==
    LET name == inputs["Measured section name"]
        collection_name == name \o COLLECTION_NAME_POSTFIX
        new_row == << inputs["ENO"],
                      inputs["Measured section name"],
                      inputs["Dep ref point"],
                      "",
                      collection_name,
                      COLLECTION_TYPE,
                      ORIGINATOR_NUMBER,
                      PREFERRED_COLLECTION,
                      "",
                      "" >>
    IN  [workbook |-> append(workbook, COLLECTION, new_row), ret |-> name]

\* scalar_row without the blank cell of the column Resultid (a fault model
\* against which C9 is checked)
scalar_row_short(sample_id, measurement, current_bayesian_constants) ==
    << sample_id, "", "",
       ACCESS_CODE, "", QA_STATUS, ORIGNO, SOURCE_TYPE, SOURCE, LOAD_APPROVED,
       PROCESS_TYPE, PETROPHYSICAL_PROPERTY, measurement, UOM,
       current_bayesian_constants["RESULT QUALIFIER"],
       current_bayesian_constants["UNCERTAINTY TYPE"],
       current_bayesian_constants["UNCERTAINTY VALUE"],
       current_bayesian_constants["UNCERTAINTY UOM"],
       "", "",
       current_bayesian_constants["SP_REMARKS"],
       NUMERICAL_CONFIDENCE, METADATA_QUALITY, SUMMARY_CONFIDENCE >>

\* the row add_scalar_properties builds for one band
scalar_row(sample_id, measurement, current_bayesian_constants) ==
    << sample_id, "", "", "",
       ACCESS_CODE,
       "",
       QA_STATUS,
       ORIGNO,
       SOURCE_TYPE,
       SOURCE,
       LOAD_APPROVED,
       PROCESS_TYPE,
       PETROPHYSICAL_PROPERTY,
       measurement,
       UOM,
       current_bayesian_constants["RESULT QUALIFIER"],
       current_bayesian_constants["UNCERTAINTY TYPE"],
       current_bayesian_constants["UNCERTAINTY VALUE"],
       current_bayesian_constants["UNCERTAINTY UOM"],
       "",
       "",
       current_bayesian_constants["SP_REMARKS"],
       NUMERICAL_CONFIDENCE,
       METADATA_QUALITY,
       SUMMARY_CONFIDENCE >>

\* the loop of add_scalar_properties from the k-th item of lmh on
RECURSIVE scalar_loop(_, _, _, _)
scalar_loop(workbook, sample_id, smr_results_row, k) ==
    IF k > Len(lmh)
    THEN [workbook |-> workbook, exc |-> "none"]
    ELSE LET bayesian_percentile == lmh[k][2]
             current_bayesian_constants == BAYESIAN_CONSTANTS[bayesian_percentile]
             rounded == round_up(smr_results_row[bayesian_percentile], 4)
             measurement == IF rounded.ret.isnan
                            THEN PyInt(NULL_VALUE)
                            ELSE rounded.ret
         IN  IF rounded.exc # "none"
             THEN [workbook |-> workbook, exc |-> rounded.exc]
             ELSE scalar_loop(
                      append(workbook, SCALAR,
                             scalar_row(sample_id, measurement,
                                        current_bayesian_constants)),
                      sample_id, smr_results_row, k + 1)

add_scalar_properties(workbook, sample_id, smr_results_row) ==
    scalar_loop(workbook, sample_id, smr_results_row, 1)

\* sample_id_of numbering by the label the row had in the whole frame, not by
\* its position in the site's subset (a fault model against which C5 is checked)
sample_id_of_frame_label(smr_results_row, smr_results_idx) ==
    smr_results_row.site_name \o "_L" \o ToString(smr_results_row.index + 1)

sample_id_of(smr_results_row, smr_results_idx) ==
    smr_results_row.site_name \o "_L" \o ToString(smr_results_idx + 1)

add_samples(working_info, collection_name, interval_id, workbook, smr_results_idx, smr_results_row) ==
    LET sample_id == sample_id_of(smr_results_row, smr_results_idx)
        new_row == << working_info["ENO"],
                      collection_name,
                      "", "",
                      interval_id,
                      sample_id,
                      working_info["Acq_date"],
                      "", "",
                      ANO,
                      ACCESS_CODE,
                      "",
                      QA_STATUS,
                      ACTIVITY_CODE,
                      SAMPLE_TYPE,
                      SAMPLING_METHOD,
                      MATERIAL_CLASS,
                      "",
                      PROJECT_NO,
                      "", "", "", "", "", "", "", "", "" >>
    IN  add_scalar_properties(append(workbook, SAMPLES, new_row),
                              sample_id, smr_results_row)

\* collection_name_of with another postfix than the one the Collection row
\* was written with (a fault model against which C4 is checked)
collection_name_of_drifted(site) == site \o " water content"

\* collection_name as add_section_intervals builds it again from site_name
collection_name_of(site) == site \o COLLECTION_NAME_POSTFIX

\* beyond_max_depth on the float, without int() (a fault model against which
\* C3 is checked)
beyond_max_depth_float(row) == row.depth_to.val > MAX_DEPTH * Unit

\* beyond_max_depth on the start of the bin (a fault model against which C7
\* is checked)
beyond_max_depth_from(row) == int(row.depth_from) > MAX_DEPTH

\* the test that ends the loop of add_section_intervals
beyond_max_depth(row) == int(row.depth_to) > MAX_DEPTH

interval_id_of(site, row) ==
    site \o "_" \o ToString(int(row.depth_from)) \o "-"
         \o ToString(int(row.depth_to)) \o "m"

\* the body of the loop of add_section_intervals below the break
interval_body(working_info, site, workbook, i, row) ==
    LET collection_name == collection_name_of(site)
        interval_id == interval_id_of(site, row)
        new_row == << "",
                      collection_name,
                      "",
                      interval_id,
                      row.depth_from,
                      row.depth_to,
                      INTERVAL_UNIT_OF_MEASURE >>
    IN  add_samples(working_info, collection_name, interval_id,
                    append(workbook, INTERVALS, new_row), i, row)

---------------------------------------------------------------------------
(* main *)

working_info == smr_metadata[row_nr + 1]
row == current_results[idx + 1]

\* no call of round_up on its own
NoCall == [n |-> NaN, decimals |-> 0, ret |-> <<>>]

Init ==
    /\ smr_metadata \in SeqsUpTo(MetaRows, MaxSites)
    /\ csv \in SeqsUpTo(CsvRows, MaxRows)
    /\ pc = "main"
    /\ row_nr = 0
    /\ site_name = ""
    /\ current_results = <<>>
    /\ idx = 0
    /\ wb = [ws \in worksheets |-> <<>>]
    /\ saved = <<>>
    /\ call = NoCall

\* main calls add_section_interval_collection for the next metadata row
AddSectionIntervalCollection ==
    /\ pc = "main"
    /\ row_nr < Len(smr_metadata)
    /\ LET r == add_section_interval_collection(working_info, wb)
       IN  /\ wb' = r.workbook
           /\ site_name' = r.ret
    /\ pc' = "collected"
    /\ UNCHANGED <<smr_metadata, csv, row_nr, current_results, idx, saved, call>>

\* main calls add_section_intervals, which runs up to its loop
EnterSectionIntervals ==
    /\ pc = "collected"
    /\ current_results' = site_subset(get_smr_df(csv), site_name)
    /\ idx' = 0
    /\ pc' = "intervals"
    /\ UNCHANGED <<smr_metadata, csv, row_nr, site_name, wb, saved, call>>

\* one pass of the loop that runs to its end
IntervalStep ==
    /\ pc = "intervals"
    /\ idx < Len(current_results)
    /\ ~beyond_max_depth(row)
    /\ LET r == interval_body(working_info, site_name, wb, idx, row)
       IN  /\ r.exc = "none"
           /\ wb' = r.workbook
    /\ idx' = idx + 1
    /\ UNCHANGED <<smr_metadata, csv, pc, row_nr, site_name, current_results, saved, call>>

\* IntervalStepRaises with the exception caught and the loop going on with the
\* next bin: a skip-and-continue policy the program does not have
IntervalStepSkips ==
    /\ pc = "intervals"
    /\ idx < Len(current_results)
    /\ ~beyond_max_depth(row)
    /\ LET r == interval_body(working_info, site_name, wb, idx, row)
       IN  /\ r.exc # "none"
           /\ wb' = r.workbook
    /\ idx' = idx + 1
    /\ UNCHANGED <<smr_metadata, csv, pc, row_nr, site_name, current_results, saved, call>>

\* one pass of the loop in which round_up raises: the exception leaves
\* add_scalar_properties, add_samples, add_section_intervals and main
IntervalStepRaises ==
    /\ pc = "intervals"
    /\ idx < Len(current_results)
    /\ ~beyond_max_depth(row)
    /\ LET r == interval_body(working_info, site_name, wb, idx, row)
       IN  /\ r.exc # "none"
           /\ wb' = r.workbook
    /\ pc' = "aborted"
    /\ UNCHANGED <<smr_metadata, csv, row_nr, site_name, current_results, idx, saved, call>>

\* the break: add_section_intervals returns to the loop of main
IntervalsBreak ==
    /\ pc = "intervals"
    /\ idx < Len(current_results)
    /\ beyond_max_depth(row)
    /\ pc' = "main"
    /\ row_nr' = row_nr + 1
    /\ UNCHANGED <<smr_metadata, csv, site_name, current_results, idx, wb, saved, call>>

\* iterrows is exhausted: add_section_intervals returns to the loop of main
IntervalsExhausted ==
    /\ pc = "intervals"
    /\ idx = Len(current_results)
    /\ pc' = "main"
    /\ row_nr' = row_nr + 1
    /\ UNCHANGED <<smr_metadata, csv, site_name, current_results, idx, wb, saved, call>>

\* wb.save(output_loader) after the last metadata row
Save ==
    /\ pc = "main"
    /\ row_nr = Len(smr_metadata)
    /\ saved' = <<wb>>
    /\ pc' = "saved"
    /\ UNCHANGED <<smr_metadata, csv, row_nr, site_name, current_results, idx, wb,
                   call>>

Next ==
    \/ AddSectionIntervalCollection
    \/ EnterSectionIntervals
    \/ IntervalStep
    \/ IntervalStepRaises
    \/ IntervalsBreak
    \/ IntervalsExhausted
    \/ Save

Spec == Init /\ [][Next]_vars

---------------------------------------------------------------------------
(* round_up and add_scalar_properties on their own: a call of round_up     *)
(* with arguments drawn from RoundUpArgs, then, where decimals is the 4    *)
(* add_scalar_properties rounds to, a call of add_scalar_properties on a   *)
(* row made of that value, the value plus 3 units and its negative.        *)

RoundUpArgs ==
    UNION { { <<k * 10^e, d>> : k \in (-MaxMantissa)..MaxMantissa,
                               e \in 0..(MaxDigits - d) } :
            d \in 0..MaxDecimals }
    \cup { <<200100, 2>>, <<200000, 2>>, <<-200100, 2>> }

RowOf(n) ==
    [site_name |-> "S1", depth_from |-> Num(0), depth_to |-> Num(Unit),
     BAYESIAN_LOW |-> n, BAYESIAN_MEDIAN |-> Num(n.val + 3),
     BAYESIAN_HIGH |-> Num(-n.val), index |-> 0]

InitRoundUp ==
    /\ smr_metadata = <<>>
    /\ csv = <<>>
    /\ pc = "round_up"
    /\ row_nr = 0
    /\ site_name = "S1"
    /\ idx = 0
    /\ wb = [ws \in worksheets |-> <<>>]
    /\ saved = <<>>
    /\ \E a \in RoundUpArgs :
          /\ call = [n |-> Num(a[1]), decimals |-> a[2], ret |-> <<>>]
          /\ current_results = <<RowOf(Num(a[1]))>>

CallRoundUp ==
    /\ pc = "round_up"
    /\ call' = [call EXCEPT !.ret = <<round_up(call.n, call.decimals)>>]
    /\ pc' = IF call.decimals = 4 THEN "add_scalar_properties" ELSE "returned"
    /\ UNCHANGED <<smr_metadata, csv, row_nr, site_name, current_results, idx, wb, saved>>

CallAddScalarProperties ==
    /\ pc = "add_scalar_properties"
    /\ wb' = add_scalar_properties(wb, sample_id_of(row, idx), row).workbook
    /\ pc' = "returned"
    /\ UNCHANGED <<smr_metadata, csv, row_nr, site_name, current_results, idx, saved,
                   call>>

NextRoundUp == CallRoundUp \/ CallAddScalarProperties

SpecRoundUp == InitRoundUp /\ [][NextRoundUp]_vars

---------------------------------------------------------------------------
(* Vocabulary of the properties *)

Min(S) == CHOOSE x \in S : \A y \in S : x <= y

\* the site's bins as add_section_intervals sees them: frame order, rounded
SiteBins(s) == site_subset(get_smr_df(csv), s)

\* the bins of site s before the first one that ends at 101 metres or deeper,
\* i.e. whose end depth in whole metres is more than MAX_DEPTH
Retained(s) ==
    LET b == SiteBins(s)
        deep == {i \in 1..Len(b) : b[i].depth_to.val >= (MAX_DEPTH + 1) * Unit}
    IN  IF deep = {} THEN Len(b) ELSE Min(deep) - 1

\* the bins of site s before the first one whose end depth is more than
\* MAX_DEPTH metres
RetainedByDepth(s) ==
    LET b == SiteBins(s)
        deep == {i \in 1..Len(b) : b[i].depth_to.val > MAX_DEPTH * Unit}
    IN  IF deep = {} THEN Len(b) ELSE Min(deep) - 1

SiteOf(k) == smr_metadata[k]["Measured section name"]

\* the number of metadata rows whose processing has begun
Started == IF pc \in {"main", "saved"} THEN row_nr ELSE row_nr + 1

RECURSIVE SumRetained(_)
SumRetained(k) == IF k = 0 THEN 0 ELSE SumRetained(k - 1) + Retained(SiteOf(k))

HasNaN(r) == \E k \in 1..Len(lmh) : r[lmh[k][2]].isnan

\* the rows the current site's processing has appended to SAMPLES so far
SiteSampleCount == IF pc = "aborted" THEN idx + 1 ELSE idx

\* columns of the sheets, 1-based
CollectionNameCol == 5
IntervalEndCol == 6
SampleCollectionCol == 2
SampleIntervalCol == 5
SampleIdCol == 6
ScalarSampleCol == 1
ScalarValueCol == 14

---------------------------------------------------------------------------
(* C1.  Whenever no site is half-way (main is between two sites, has saved  *)
(* or has stopped on an exception), the sheets hold, over the sites         *)
(* processed so far, 1 Collection row per site and, with N the sum of the   *)
(* sites' retained bins, N Interval rows, N Sample rows and 3N Scalar       *)
(* Property rows: per site 1, N, N and 3N rows.                             *)
C1_RowsPerSite ==
    pc \in {"main", "saved", "aborted"} =>
        LET n == SumRetained(Started)
        IN  /\ Len(wb[COLLECTION]) = Started
            /\ Len(wb[INTERVALS]) = n
            /\ Len(wb[SAMPLES]) = n
            /\ Len(wb[SCALAR]) = 3 * n

(* C2.  A pass of the loop over a retained row with a not-a-number band     *)
(* raises nothing, stays in the loop, appends the three Scalar Property     *)
(* rows and writes NULL_VALUE as the value of every not-a-number band.      *)
C2_NaNBecomesNull ==
    [][ ( /\ pc = "intervals"
          /\ idx < Len(current_results)
          /\ ~beyond_max_depth(row)
          /\ HasNaN(row) )
        => /\ pc' = "intervals"
           /\ Len(wb'[SCALAR]) = Len(wb[SCALAR]) + Len(lmh)
           /\ \A k \in 1..Len(lmh) :
                row[lmh[k][2]].isnan =>
                    wb'[SCALAR][Len(wb[SCALAR]) + k][ScalarValueCol] = PyInt(NULL_VALUE)
      ]_vars

(* C3 as stated.  Inside a site's loop the number of bins emitted so far    *)
(* never passes the number of bins before the first one whose depth_to is   *)
(* more than MAX_DEPTH.                                                     *)
C3_StopsAtFirstDepthOver100 ==
    pc = "intervals" => idx <= RetainedByDepth(site_name)

(* C3 as amended.  Every pass of a site's loop emits the next bin in frame  *)
(* order, and only a bin before the first one whose depth_to in whole       *)
(* metres is more than MAX_DEPTH; the loop returns exactly at that bin (or  *)
(* at the end of the site's bins) and appends nothing when it returns.      *)
C3_StopsAtFirstWholeMetreOver100 ==
    [][ pc = "intervals" =>
          /\ pc' = "intervals" =>
                /\ idx' = idx + 1
                /\ idx' <= Retained(site_name)
                /\ Len(wb'[INTERVALS]) = Len(wb[INTERVALS]) + 1
                /\ LET new == wb'[INTERVALS][Len(wb'[INTERVALS])]
                   IN  /\ new[IntervalEndCol] = SiteBins(site_name)[idx'].depth_to
                       /\ new[IntervalEndCol - 1] = SiteBins(site_name)[idx'].depth_from
          /\ pc' = "main" => idx = Retained(site_name) /\ wb' = wb
          /\ pc' = "aborted" => idx < Retained(site_name)
      ]_vars

\* a site's loop has returned at a deep bin after which a shallow bin follows
C3_Witness ==
    /\ pc = "main"
    /\ row_nr = 1
    /\ idx >= 1
    /\ Len(wb[INTERVALS]) = idx
    /\ idx < Len(current_results)
    /\ \E j \in (idx + 2)..Len(current_results) :
          current_results[j].depth_to.val <= MAX_DEPTH * Unit

\* the rows of sheet ws whose column col holds v
MatchingRows(ws, col, v) == {i \in 1..Len(wb[ws]) : wb[ws][i][col] = v}

\* no two of the metadata rows processed so far name the same site
DistinctSites ==
    \A j, k \in 1..Started : j # k => SiteOf(j) # SiteOf(k)

(* C4 as stated.  Every Scalar Property row's sample_id is the sample id of *)
(* exactly one Samples row, every Samples row's collection name is the name *)
(* of exactly one Collection row.                                           *)
C4_ExactlyOneParent ==
    /\ \A i \in 1..Len(wb[SCALAR]) :
          Cardinality(MatchingRows(SAMPLES, SampleIdCol,
                                   wb[SCALAR][i][ScalarSampleCol])) = 1
    /\ \A i \in 1..Len(wb[SAMPLES]) :
          Cardinality(MatchingRows(COLLECTION, CollectionNameCol,
                                   wb[SAMPLES][i][SampleCollectionCol])) = 1

(* C4 as amended.  Every Scalar Property row's sample_id is the sample id   *)
(* of at least one Samples row and every Samples row's collection name is   *)
(* the name of at least one Collection row; it is exactly one row when no   *)
(* two of the metadata rows processed so far name the same site.            *)
C4_ParentExists ==
    /\ \A i \in 1..Len(wb[SCALAR]) :
          LET m == MatchingRows(SAMPLES, SampleIdCol, wb[SCALAR][i][ScalarSampleCol])
          IN  m # {} /\ (DistinctSites => Cardinality(m) = 1)
    /\ \A i \in 1..Len(wb[SAMPLES]) :
          LET m == MatchingRows(COLLECTION, CollectionNameCol,
                                wb[SAMPLES][i][SampleCollectionCol])
          IN  m # {} /\ (DistinctSites => Cardinality(m) = 1)

\* two different sites are done and each has Scalar Property rows
C4_Witness ==
    /\ pc = "saved"
    /\ row_nr = 2
    /\ DistinctSites
    /\ \A k \in 1..2 :
          \E i \in 1..Len(wb[SCALAR]) :
              wb[SCALAR][i][ScalarSampleCol] = SiteOf(k) \o "_L1"

(* C5.  The Samples rows a site's processing has appended so far are, in    *)
(* order, those of the bins at positions 0, 1, ... of the site's subset and *)
(* carry the ids site_L1, site_L2, ...: distinct, increasing, without gaps. *)
C5_SampleIdsCountBins ==
    pc \in {"intervals", "aborted"} =>
        LET n == SiteSampleCount
            first == Len(wb[SAMPLES]) - n
        IN  /\ first >= 0
            /\ \A k \in 1..n :
                  /\ wb[SAMPLES][first + k][SampleIdCol]
                        = site_name \o "_L" \o ToString(k)
                  /\ wb[SAMPLES][first + k][SampleIntervalCol]
                        = interval_id_of(site_name, SiteBins(site_name)[k])
            /\ \A j, k \in 1..n :
                  j # k => wb[SAMPLES][first + j][SampleIdCol]
                            # wb[SAMPLES][first + k][SampleIdCol]

\* two bins of a site are emitted and the site's lines do not open the file
C5_Witness ==
    /\ pc = "intervals"
    /\ idx = 2
    /\ current_results[1].index > 0
    /\ wb[SAMPLES][Len(wb[SAMPLES])][SampleIdCol] = site_name \o "_L2"

BandMagnitude == <<5, 50, 95>>

(* C6.  Every pass of the loop that appends a Samples row (every call of    *)
(* add_scalar_properties) appends exactly 3 rows to SCALAR PROPERTIES, all  *)
(* with that sample's id, for low, median, high in this order, each with    *)
(* its band's qualifier, uncertainty type, magnitude 5, 50, 95, unit and    *)
(* remark.                                                                  *)
C6_ThreeRowsPerCall ==
    [][ Len(wb'[SAMPLES]) = Len(wb[SAMPLES]) + 1 =>
          LET sid == wb'[SAMPLES][Len(wb'[SAMPLES])][SampleIdCol]
              old == Len(wb[SCALAR])
          IN  /\ Len(wb'[SCALAR]) = old + 3
              /\ \A k \in 1..3 :
                    LET new == wb'[SCALAR][old + k]
                        band == BAYESIAN_CONSTANTS[lmh[k][2]]
                    IN  /\ new[ScalarSampleCol] = sid
                        /\ new[16] = band["RESULT QUALIFIER"]
                        /\ new[17] = band["UNCERTAINTY TYPE"]
                        /\ new[18] = BandMagnitude[k]
                        /\ new[19] = band["UNCERTAINTY UOM"]
                        /\ new[22] = band["SP_REMARKS"]
      ]_vars

(* C7 as stated.  Every Intervals row's end depth is at most MAX_DEPTH.     *)
C7_EndDepthAtMost100 ==
    \A i \in 1..Len(wb[INTERVALS]) :
        wb[INTERVALS][i][IntervalEndCol].val <= MAX_DEPTH * Unit

(* C7 as amended.  Every Intervals row's end depth is less than             *)
(* MAX_DEPTH + 1 metres: in whole metres it is at most MAX_DEPTH.           *)
C7_EndDepthBelow101 ==
    \A i \in 1..Len(wb[INTERVALS]) :
        wb[INTERVALS][i][IntervalEndCol].val < (MAX_DEPTH + 1) * Unit

\* an Intervals row ends between 100 and 101 metres
C7_Witness ==
    \E i \in 1..Len(wb[INTERVALS]) :
        /\ wb[INTERVALS][i][IntervalEndCol].val > MAX_DEPTH * Unit
        /\ wb[INTERVALS][i][IntervalEndCol].val < (MAX_DEPTH + 1) * Unit

\* a step appends one Collection row, named after the metadata row at hand,
\* and leaves the other sheets alone
CollectionCallAppends ==
    /\ wb'[COLLECTION] # wb[COLLECTION]
    /\ Len(wb'[COLLECTION]) = Len(wb[COLLECTION]) + 1
    /\ \A i \in 1..Len(wb[COLLECTION]) : wb'[COLLECTION][i] = wb[COLLECTION][i]
    /\ wb'[COLLECTION][Len(wb'[COLLECTION])][CollectionNameCol]
          = SiteOf(row_nr + 1) \o " water content profile"
    /\ \A ws \in worksheets \ {COLLECTION} : wb'[ws] = wb[ws]

(* C8 as stated.  A call of add_section_interval_collection appends one     *)
(* Collection row named site_name + COLLECTION_NAME_POSTFIX, leaves the     *)
(* other sheets alone and returns that collection name.                     *)
C8_ReturnsCollectionName ==
    [][ pc = "main" /\ pc' = "collected" =>
          /\ CollectionCallAppends
          /\ site_name' = wb'[COLLECTION][Len(wb'[COLLECTION])][CollectionNameCol]
      ]_vars

(* C8 as amended.  A call of add_section_interval_collection appends one    *)
(* Collection row named site_name + COLLECTION_NAME_POSTFIX, leaves the     *)
(* other sheets alone and returns the site name.                            *)
C8_ReturnsSiteName ==
    [][ pc = "main" /\ pc' = "collected" =>
          /\ CollectionCallAppends
          /\ site_name' = SiteOf(row_nr + 1)
      ]_vars

\* the second call has returned, after a first site that left rows in all sheets
C8_Witness ==
    /\ pc = "collected"
    /\ row_nr = 1
    /\ Len(wb[COLLECTION]) = 2
    /\ Len(wb[SCALAR]) > 0
    /\ site_name = SiteOf(2)

\* the numbers of values of the rows of the four sheets
RowWidths(c, i, s, p) ==
    /\ \A k \in 1..Len(wb[COLLECTION]) : Len(wb[COLLECTION][k]) = c
    /\ \A k \in 1..Len(wb[INTERVALS]) : Len(wb[INTERVALS][k]) = i
    /\ \A k \in 1..Len(wb[SAMPLES]) : Len(wb[SAMPLES][k]) = s
    /\ \A k \in 1..Len(wb[SCALAR]) : Len(wb[SCALAR][k]) = p

(* C9 as stated.  Rows have 10 (Collection), 7 (Intervals), 27 (Samples)    *)
(* and 24 (Scalar Properties) values.                                       *)
C9_Widths_10_7_27_24 == RowWidths(10, 7, 27, 24)

(* C9 as amended.  Rows have 10 (Collection), 7 (Intervals), 28 (Samples)   *)
(* and 25 (Scalar Properties) values.                                       *)
C9_Widths_10_7_28_25 == RowWidths(10, 7, 28, 25)

\* every sheet holds a row
C9_Witness == \A ws \in worksheets : Len(wb[ws]) > 0

\* r is the least multiple of 10^-d that is >= x
IsLeastMultiple(r, x, d) ==
    /\ ~r.isnan
    /\ (r.val * 10^d) % Unit = 0
    /\ r.val >= x.val
    /\ (r.val - x.val) * 10^d < Unit

(* C10.  round_up(value, decimals) is the least multiple of 10^-decimals   *)
(* that is >= value (so round_up(2.001, 2) = 2.01, round_up(2.00, 2) =     *)
(* 2.00, round_up(-2.001, 2) = -2.0), and every value add_scalar_properties *)
(* writes that is not the null value is that multiple, for 4 decimals, of   *)
(* the band's measurement.                                                  *)
C10_RoundUpIsCeiling ==
    /\ call.ret # <<>> =>
          /\ call.ret[1].exc = "none"
          /\ IsLeastMultiple(call.ret[1].ret, call.n, call.decimals)
          /\ call.n.val = 200100 /\ call.decimals = 2 => call.ret[1].ret.val = 201000
          /\ call.n.val = 200000 /\ call.decimals = 2 => call.ret[1].ret.val = 200000
          /\ call.n.val = -200100 /\ call.decimals = 2 => call.ret[1].ret.val = -200000
    /\ pc = "returned" =>
          \A k \in 1..Len(wb[SCALAR]) :
              wb[SCALAR][k][ScalarValueCol] # PyInt(NULL_VALUE) =>
                  IsLeastMultiple(wb[SCALAR][k][ScalarValueCol],
                                  current_results[1][lmh[k][2]], 4)

\* round_up has moved its argument up and the three values are written
C10_Witness ==
    /\ pc = "returned"
    /\ call.ret[1].ret.val > call.n.val
    /\ Len(wb[SCALAR]) = 3
    /\ wb[SCALAR][1][ScalarValueCol] = call.ret[1].ret
    /\ wb[SCALAR][3][ScalarValueCol].val > -call.n.val

\* the line of the file that row k of the site's subset was read from
SourceLine(k) == csv[current_results[k].index + 1]

\* r is the multiple of a centimetre nearest to x, the even one on a tie
IsNearestCentimetre(r, x) ==
    LET step == Unit \div 100
        d == IF r.val >= x.val THEN r.val - x.val ELSE x.val - r.val
    IN  /\ ~r.isnan
        /\ r.val % step = 0
        /\ 2 * d <= step
        /\ 2 * d = step => (r.val \div step) % 2 = 0

(* C11 as stated.  The frame get_smr_df builds has as many rows as the      *)
(* file has lines, and every depth_from and depth_to of a row of the site   *)
(* at hand is round_up(depth, 2) of the depth in its line.                  *)
C11_DepthsRoundedUp ==
    pc = "intervals" =>
        /\ Len(get_smr_df(csv)) = Len(csv)
        /\ \A k \in 1..Len(current_results) :
              /\ current_results[k].depth_from = round_up(SourceLine(k).depth_from, 2).ret
              /\ current_results[k].depth_to = round_up(SourceLine(k).depth_to, 2).ret

(* C11 as amended.  The frame get_smr_df builds has as many rows as the     *)
(* file has lines (the site's subset holds every line of the site), and     *)
(* every depth_from and depth_to is the depth of its line rounded to the    *)
(* nearest centimetre, a tie to the even one; rounding such a depth again   *)
(* yields the same value.                                                   *)
C11_DepthsRoundedToNearest ==
    pc = "intervals" =>
        /\ Len(get_smr_df(csv)) = Len(csv)
        /\ Len(current_results)
              = Cardinality({i \in 1..Len(csv) : csv[i].site_name = site_name})
        /\ \A k \in 1..Len(current_results) :
              /\ IsNearestCentimetre(current_results[k].depth_from, SourceLine(k).depth_from)
              /\ IsNearestCentimetre(current_results[k].depth_to, SourceLine(k).depth_to)
              /\ np_round(current_results[k].depth_from, 2) = current_results[k].depth_from
              /\ np_round(current_results[k].depth_to, 2) = current_results[k].depth_to

\* the site's subset holds a depth that rounding moved down and a tie
C11_Witness ==
    /\ pc = "intervals"
    /\ \E k \in 1..Len(current_results) :
          /\ current_results[k].depth_from.val < SourceLine(k).depth_from.val
          /\ 2 * (SourceLine(k).depth_to.val % (Unit \div 100)) = Unit \div 100
    /\ Len(current_results) < Len(csv)

\* add_scalar_properties has raised: a Samples row is left with fewer than
\* its three Scalar Property rows
ErrorOccurred == Len(wb[SCALAR]) # Len(lmh) * Len(wb[SAMPLES])

\* the Collection rows are those of the metadata rows begun so far, in input
\* order and one per row; once an error has occurred main has stopped in the
\* row at hand and nothing is saved
InInputOrderUpToFailure ==
    /\ Len(wb[COLLECTION]) = Started
    /\ Started <= Len(smr_metadata)
    /\ \A k \in 1..Len(wb[COLLECTION]) :
          /\ wb[COLLECTION][k][2] = SiteOf(k)
          /\ wb[COLLECTION][k][CollectionNameCol] = SiteOf(k) \o " water content profile"
    /\ ErrorOccurred =>
          /\ pc = "aborted"
          /\ Len(wb[COLLECTION]) = row_nr + 1
          /\ saved = <<>>
    /\ pc = "saved" => ~ErrorOccurred /\ row_nr = Len(smr_metadata) /\ saved = <<wb>>

\* the rows with indices above Len(old) of sheet new
NewRows(old, new) == (Len(old) + 1)..Len(new)

\* a step that appends Interval, Sample or Scalar Property rows appends rows
\* of the metadata row at hand, whose Collection row is already the last of
\* its sheet; a step that appends a Collection row appends nothing else
RowsFollowTheirCollection ==
    /\ \A ws \in {INTERVALS, SAMPLES} :
          wb'[ws] # wb[ws] =>
              /\ wb'[COLLECTION] = wb[COLLECTION]
              /\ Len(wb[COLLECTION]) = row_nr + 1
              /\ \A i \in NewRows(wb[ws], wb'[ws]) :
                    wb'[ws][i][2] = wb[COLLECTION][row_nr + 1][CollectionNameCol]
    /\ wb'[SCALAR] # wb[SCALAR] =>
          /\ Len(wb'[SAMPLES]) = Len(wb[SAMPLES]) + 1
          /\ \A i \in NewRows(wb[SCALAR], wb'[SCALAR]) :
                wb'[SCALAR][i][ScalarSampleCol]
                    = wb'[SAMPLES][Len(wb'[SAMPLES])][SampleIdCol]
    /\ wb'[COLLECTION] # wb[COLLECTION] =>
          \A ws \in worksheets \ {COLLECTION} : wb'[ws] = wb[ws]

(* C12.  main processes the metadata rows in input order: the Collection    *)
(* rows are those of the rows begun so far, in order, and every Interval,   *)
(* Sample and Scalar Property row is appended while its site's Collection   *)
(* row is the last one; when round_up raises in row k no later row is       *)
(* begun, nothing more is appended and wb.save is not performed.            *)
C12_InOrderAbortOnError ==
    /\ []InInputOrderUpToFailure
    /\ [][RowsFollowTheirCollection]_vars
    /\ [][pc = "aborted" => pc' = "aborted" /\ wb' = wb /\ saved' = saved]_vars

\* the first of two metadata rows has failed after a bin was emitted
C12_Witness ==
    /\ pc = "aborted"
    /\ Len(smr_metadata) = 2
    /\ row_nr = 0
    /\ idx >= 1
    /\ Len(wb[COLLECTION]) = 1
    /\ Len(wb[SCALAR]) > 3

---------------------------------------------------------------------------
(* Measurement files whose lines are depth-ascending within each site      *)

\* depth bins in metres * Unit: two adjoining bins within the first metre and
\* a bin from there to 105 metres
AscendingBins == { <<20400, 71500>>,
                   <<71500, 95000>>,
                   <<95000, 10500000>> }

AscendingCsvRows ==
    { [site_name |-> s, depth_from |-> Num(b[1]), depth_to |-> Num(b[2]),
       p5 |-> p[1], p50 |-> p[2], p95 |-> p[3]] :
      s \in Sites, b \in AscendingBins, p \in Percentiles }

\* every line of a site starts where an earlier line of the site ended, or
\* deeper
IsAscending(lines) ==
    \A i, j \in 1..Len(lines) :
        i < j /\ lines[i].site_name = lines[j].site_name
            => lines[i].depth_to.val <= lines[j].depth_from.val

InitAscending ==
    /\ smr_metadata \in SeqsUpTo(MetaRows, MaxSites)
    /\ csv \in {lines \in SeqsUpTo(AscendingCsvRows, MaxRows) : IsAscending(lines)}
    /\ pc = "main"
    /\ row_nr = 0
    /\ site_name = ""
    /\ current_results = <<>>
    /\ idx = 0
    /\ wb = [ws \in worksheets |-> <<>>]
    /\ saved = <<>>
    /\ call = NoCall

SpecAscending == InitAscending /\ [][Next]_vars

IntervalIdCol == 4

(* C13.  While a site is processed, the Interval rows appended for it so    *)
(* far carry pairwise distinct interval ids, and the interval id of each of *)
(* its Sample rows is the id of exactly one of these Interval rows.         *)
C13_IntervalIdsDistinct ==
    pc \in {"intervals", "aborted"} =>
        LET n == SiteSampleCount
            firstInterval == Len(wb[INTERVALS]) - n
            firstSample == Len(wb[SAMPLES]) - n
        IN  /\ \A j, k \in 1..n :
                  j # k => wb[INTERVALS][firstInterval + j][IntervalIdCol]
                            # wb[INTERVALS][firstInterval + k][IntervalIdCol]
            /\ \A k \in 1..n :
                  Cardinality({j \in 1..n :
                      wb[INTERVALS][firstInterval + j][IntervalIdCol]
                          = wb[SAMPLES][firstSample + k][SampleIntervalCol]}) = 1

=============================================================================
